---- MODULE Spec2Model ----
(***************************************************************************)
(* Session lifecycle and resolution of chuk-mcp-ios-simulator:             *)
(*   core/session_manager.py   UnifiedSessionManager (the session store)   *)
(*   core/utilities_manager.py UnifiedUtilitiesManager (the resolver)      *)
(*   mcp/tools.py              the accessor and the tool entry points      *)
(* Time is counted in hours.  A session id "<name>_<timestamp>_<entropy>"  *)
(* is the record [ts, ent]; a persisted file is named after the id.        *)
(***************************************************************************)
EXTENDS Integers, Sequences, FiniteSets, TLC

\* ---------------------------------------------------------------- bounds
MaxTime == 2
MaxEntropy == 1
MaxSessionsBound == 2
MaxAutoCleanup == 2
MaxClock == 34
MaxTimeout == 2

\* ------------------------------------------------------ program constants
\* create_session reaps with max_age_hours=1 when the store is full
AggressiveAgeHours == 1
\* DeviceDetector and SimulatorManager keep a listing for 30 seconds
CacheTimeout == 30
\* _prepare_simulator polls 30 times, one second apart
LegacyBootPolls == 30

\* workers of the default executor
Threads == 1..2
Entropy == 0..MaxEntropy
Ids == [ts : 0..MaxTime, ent : Entropy]
NoId == [ts |-> -1, ent |-> -1]

Simulators == {"S1"}
RealDevices == {"R1"}
Devices == Simulators \cup RealDevices
UnknownUdid == "X"
NoUdid == "none"

\* DeviceType enum values (core/base.py)
DeviceTypeOf(u) == IF u \in Simulators THEN "SIMULATOR" ELSE "REAL_DEVICE"
\* DeviceType.value and DeviceType(value): the enum member and the string the
\* record file carries for it
DeviceTypeValue(dt) == IF dt = "SIMULATOR" THEN "simulator" ELSE "real_device"
DeviceType(v) == IF v = "simulator" THEN "SIMULATOR" ELSE "REAL_DEVICE"
\* datetime.isoformat() and datetime.fromisoformat(): the text of a time
IsoFormat(t) == [iso |-> t]
FromIsoFormat(s) == s.iso

EmptyTable == [x \in {} |-> 0]
Put(tab, k, v) == [x \in (DOMAIN tab) \cup {k} |-> IF x = k THEN v ELSE tab[x]]
Del(tab, k) == [x \in (DOMAIN tab) \ {k} |-> tab[x]]
Size(tab) == Cardinality(DOMAIN tab)

\* SessionInfo (core/base.py); autoboot is metadata['config']['autoboot']
SessionInfo(id, udid, dtype, created, autoboot) ==
    [session_id |-> id, device_udid |-> udid, device_type |-> dtype,
     created_at |-> created, autoboot |-> autoboot]
NoInfo == SessionInfo(NoId, NoUdid, "none", -1, FALSE)

\* a save that writes the date of created_at without its time of day
FileOfDateOnly(info) ==
    [kind |-> "ok", session_id |-> info.session_id, device_udid |-> info.device_udid,
     device_type |-> DeviceTypeValue(info.device_type), created_at |-> IsoFormat(0),
     autoboot |-> info.autoboot, saved |-> info]
\* the JSON record _save_session writes; kind "ok" is a well-formed record.
\* `saved` is not in the file: it remembers the session the record was written for
FileOf(info) ==
    [kind |-> "ok", session_id |-> info.session_id, device_udid |-> info.device_udid,
     device_type |-> DeviceTypeValue(info.device_type),
     created_at |-> IsoFormat(info.created_at),
     autoboot |-> info.autoboot, saved |-> info]

\* files a previous process (or a user) may have left in the session directory
FileKinds == {"ok", "nofield", "badtime", "badtype", "corrupt"}
OldId1 == [ts |-> 0, ent |-> 0]
OldId2 == [ts |-> 0, ent |-> 1]
CraftedOk1 == FileOf(SessionInfo(OldId1, "S1", DeviceTypeOf("S1"), 0, TRUE))
CraftedOk2 == FileOf(SessionInfo(OldId2, "R1", DeviceTypeOf("R1"), 0, FALSE))
CraftedBad(k) ==
    IF k = "ok" THEN CraftedOk2 ELSE [CraftedOk2 EXCEPT !.kind = k, !.saved = NoInfo]
InitialDisks ==
    {EmptyTable, Put(EmptyTable, OldId1, CraftedOk1)}
    \cup {Put(Put(EmptyTable, OldId1, CraftedOk1), OldId2, CraftedBad(k)) : k \in FileKinds}

VARIABLES
    now,                \* wall clock, hours
    devState,           \* state of each device as the external tools report it
    disk,               \* session directory: file name (id) -> record
    corrupted,          \* names of the files moved to the side directory "corrupted"
    max_sessions,       \* UnifiedSessionManager() default max_sessions
    auto_cleanup_hours, \* UnifiedSessionManager() default auto_cleanup_hours
    stores,             \* live UnifiedSessionManager instances: instance -> self.sessions
    canon,              \* mcp/tools.py _unified_session_manager (0 is None)
    nCanon,             \* constructions done by get_unified_session_manager in this process
    th,                 \* worker threads of the executor run_sync uses
    serial,             \* TRUE when the callers make one call at a time
    lastCall,           \* the call that succeeded last, if nothing has run since; for a
                        \* construction also the directory it started from
    clock,              \* time.time(), seconds
    detector,           \* DeviceDetector: _device_cache and _last_cache_time
    simmgr,             \* SimulatorManager: _simulator_cache and _last_cache_time
    leg,                \* the running call on the detector or the simulator manager
    layer               \* the device layer this process is built on: "detector"
                        \* (unified_session_manager.py) or "simmgr" (cli.py, session_manager.py)

\* the device layer below the session store
legacyVars == <<clock, detector, simmgr, leg, layer>>
\* the session store and its callers
storeVars == <<now, disk, corrupted, max_sessions, auto_cleanup_hours, stores, canon,
               nCanon, th, serial, lastCall>>
vars == <<now, devState, disk, corrupted, max_sessions, auto_cleanup_hours, stores, canon,
          nCanon, th, serial, lastCall, clock, detector, simmgr, leg, layer>>

\* ------------------------------------------------------------- device layer
\* core/device_manager.py is not part of the sources; modelled from spec 4.1/4.2
IsDeviceAvailable(ds, u) == u \in Devices /\ ds[u] \in {"booted", "connected"}
DiscoverAllDevices == <<"S1", "R1">>

\* ------------------------------------------------------ store construction
Age(t, created) == t - created

\* a start-up pass that removes nothing
KeepAllOnStartup(d, t, ach) == d
\* _cleanup_old_sessions_on_startup: unlink every file that is old or that
\* raises while being read (bad JSON, missing or unparsable created_at)
CleanupOldSessionsOnStartup(d, t, ach) ==
    [f \in {g \in DOMAIN d :
              /\ d[g].kind \notin {"corrupt", "badtime"}
              /\ ~(FromIsoFormat(d[g].created_at) < t - ach)} |-> d[f]]

\* _load_sessions over the files in glob order `order`, from position i on;
\* returns the session table, the directory and the files moved to "corrupted"
RECURSIVE LoadFrom(_, _, _, _, _, _, _, _)
LoadFrom(order, i, tab, d, count, t, ach, maxs) ==
    IF i > Len(order) THEN [sessions |-> tab, disk |-> d, backup |-> {}]
    ELSE LET f == order[i]
             data == d[f]
         IN  IF data.kind = "corrupt"
             THEN \* json.JSONDecodeError: _backup_corrupted_session moves the file away
                  [LoadFrom(order, i + 1, tab, Del(d, f), count, t, ach, maxs)
                     EXCEPT !.backup = @ \cup {f}]
             ELSE IF data.kind = "nofield"
             THEN LoadFrom(order, i + 1, tab, Del(d, f), count, t, ach, maxs)
             ELSE IF data.kind = "badtime"
             THEN LoadFrom(order, i + 1, tab, Del(d, f), count, t, ach, maxs)
             ELSE IF FromIsoFormat(data.created_at) < t - ach
             THEN LoadFrom(order, i + 1, tab, Del(d, f), count, t, ach, maxs)
             ELSE IF data.kind = "badtype"
             THEN LoadFrom(order, i + 1, tab, Del(d, f), count, t, ach, maxs)
             ELSE LET info == SessionInfo(data.session_id, data.device_udid,
                                          DeviceType(data.device_type),
                                          FromIsoFormat(data.created_at), data.autoboot)
                      tab2 == Put(tab, info.session_id, info)
                  IN  IF count + 1 >= maxs
                      THEN [sessions |-> tab2, disk |-> d, backup |-> {}]
                      ELSE LoadFrom(order, i + 1, tab2, d, count + 1, t, ach, maxs)

\* terminate_session lines 179-188 as a function of the device state:
\* a simulator session created with autoboot shuts its simulator down
WantsShutdown(info) ==
    /\ info.device_udid \in Devices
    /\ DeviceTypeOf(info.device_udid) = "SIMULATOR"
    /\ info.autoboot

\* _enforce_session_limit: while over the limit, terminate the oldest session
RECURSIVE EnforceSessionLimit(_, _, _, _)
EnforceSessionLimit(tab, d, ds, maxs) ==
    IF Size(tab) > maxs
    THEN LET oldest == CHOOSE i \in DOMAIN tab :
                          \A j \in DOMAIN tab : tab[i].created_at <= tab[j].created_at
             ds2 == IF WantsShutdown(tab[oldest])
                    THEN [ds EXCEPT ![tab[oldest].device_udid] = "shutdown"] ELSE ds
         IN  EnforceSessionLimit(Del(tab, oldest), Del(d, oldest), ds2, maxs)
    ELSE [sessions |-> tab, disk |-> d, dev |-> ds]

\* glob("*.json") yields the files in an order the file system chooses
Orders(S) == {s \in [1..Cardinality(S) -> S] : \A i, j \in 1..Cardinality(S) : s[i] = s[j] => i = j}

\* UnifiedSessionManager.__init__ on directory d at time t
Construct(d, ds, t, ach, maxs, order) ==
    LET loaded == LoadFrom(order, 1, EmptyTable, CleanupOldSessionsOnStartup(d, t, ach),
                           0, t, ach, maxs)
        kept == EnforceSessionLimit(loaded.sessions, loaded.disk, ds, maxs)
    IN  [sessions |-> kept.sessions, disk |-> kept.disk, dev |-> kept.dev,
         backup |-> loaded.backup]

GlobOrders(d, t, ach) == Orders(DOMAIN CleanupOldSessionsOnStartup(d, t, ach))

\* ------------------------------------------------- listings and their caches
\* _device_cache / _simulator_cache ({} is falsy) with _last_cache_time
NoCache == [has |-> FALSE, devs |-> EmptyTable, last |-> 0]
\* a call on the detector or the simulator manager: arguments, position, and
\* what it returned; c0 is the cache and `was` the device state the call found,
\* ran whether it ran the external listing, failed whether that command failed,
\* sent whether it issued its boot or shutdown command, missed whether a poll
\* was answered from the cache while the simulator was booted
IdleLeg ==
    [pc |-> "idle", op |-> "none", udid |-> NoUdid, refresh |-> FALSE, timeout |-> 0,
     attempts |-> 0, res |-> "none", ret |-> EmptyTable, ran |-> FALSE, failed |-> FALSE,
     sent |-> FALSE, missed |-> FALSE, was |-> "none", c0 |-> NoCache]

\* ------------------------------------------------------------ thread state
\* what the caller remembers of its last successful call
NoCall == [op |-> "none", id |-> NoId, udid |-> NoUdid, dir |-> EmptyTable]
NoCfg == [device_udid |-> NoUdid, autoboot |-> FALSE]
\* SessionConfig as the tools build it: an explicit udid or none, and autoboot
Cfgs ==
    {[device_udid |-> NoUdid, autoboot |-> TRUE], [device_udid |-> "S1", autoboot |-> FALSE],
     [device_udid |-> UnknownUdid, autoboot |-> TRUE]}

IdleTh ==
    [pc |-> "idle", op |-> "none", self |-> 0, sid |-> NoId, cfg |-> NoCfg,
     age |-> 0, todo |-> {}, cleaned |-> {}, info |-> NoInfo, dev |-> NoUdid,
     res |-> "none", val |-> NoId, raw |-> NoUdid, udid |-> NoUdid, sm |-> 0, got |-> 0,
     shut |-> {}, saw |-> FALSE, conc |-> {}, prev |-> NoCall,
     tool |-> FALSE, payload |-> "none", auto |-> FALSE, undo |-> FALSE,
     s0 |-> EmptyTable, d0 |-> EmptyTable]

Busy(t) == {u \in Threads \ {t} : th[u].pc \notin {"idle", "done"}}
AllIdle == \A u \in Threads : th[u].pc = "idle"

\* instances still referenced by the accessor, a running call or its manager
Referenced(cn, tr) ==
    ({cn} \cup {tr[u].sm : u \in Threads} \cup {tr[u].self : u \in Threads}) \ {0}
Collect(st, cn, tr) == [k \in (DOMAIN st) \cap Referenced(cn, tr) |-> st[k]]
NewStoreId(st) == CHOOSE k \in 1..(Size(st) + 1) : k \notin DOMAIN st

\* the record of a call that has ended with `res`: its arguments and results
\* stay for the caller, its working values are gone
Done(r, res) ==
    [r EXCEPT !.pc = "done", !.res = res, !.info = NoInfo, !.dev = NoUdid,
              !.todo = {}, !.age = 0]

\* the record of thread t when a call starts
Started(t, op) ==
    [IdleTh EXCEPT !.op = op, !.self = canon, !.conc = Busy(t), !.prev = [lastCall EXCEPT !.dir = EmptyTable],
                   !.s0 = IF serial THEN stores[canon] ELSE EmptyTable,
                   !.d0 = IF serial THEN disk ELSE EmptyTable]
\* th after thread t starts a call with record r: overlapping calls note each other
StartCall(t, r) ==
    [u \in Threads |->
        IF u = t THEN r
        ELSE IF u \in Busy(t) THEN [th[u] EXCEPT !.conc = @ \cup {t}]
        ELSE th[u]]

\* run_sync hands the call to the first idle worker, once the results of the
\* finished calls have been taken; serial callers wait for each other
FreeWorker(t) ==
    /\ th[t].pc = "idle"
    /\ \A u \in Threads : u < t => th[u].pc # "idle"
    /\ \A u \in Threads : th[u].pc # "done"
    /\ serial => AllIdle

\* a store call is made on the instance the accessor returned
CanCall(t) == FreeWorker(t) /\ canon # 0

\* ------------------------------------------------------------ the accessor
\* an accessor that builds a new store on every call
ConstructsAlways(cn) == TRUE
\* get_unified_session_manager: construct only when the global is None
NeedsConstruction(cn) == cn = 0

GetUnifiedSessionManager ==
    /\ serial => AllIdle
    /\ NeedsConstruction(canon)
    /\ \E order \in GlobOrders(disk, now, auto_cleanup_hours) :
         LET c == Construct(disk, devState, now, auto_cleanup_hours, max_sessions, order)
             k == NewStoreId(stores)
         IN  /\ stores' = Collect(Put(stores, k, c.sessions), k, th)
             /\ canon' = k
             /\ disk' = c.disk
             /\ corrupted' = corrupted \cup c.backup
             /\ devState' = c.dev
    /\ nCanon' = nCanon + 1
    /\ lastCall' = [op |-> "construct", id |-> NoId, udid |-> NoUdid, dir |-> disk]
    /\ UNCHANGED <<legacyVars, now, max_sessions, auto_cleanup_hours, th, serial>>

\* ------------------------------------------------------- terminate_session
\* ios_terminate_session after the worker's terminate_session ended with `res`:
\* an exception is printed as a warning (line 311-315), the id is unregistered
\* and OperationResult(success=True) is returned (line 320-323)
ToolTerminatePayload(res) == "success"

\* mcp/tools.py line 240 and 361: the payload of a tool call whose
\* get_session_info raised
ToolCreateInfoFailed == "error"

\* how a terminate_session that ends with `res` continues: a direct call returns,
\* one made by cleanup_inactive_sessions goes back to its loop (line 353-357),
\* and the one ios_create_session makes for a session without info ends the
\* tool call, whatever it raised (mcp/tools.py line 236-240)
TermExit(r, res) ==
    IF r.op = "terminate"
    THEN Done([r EXCEPT !.payload = IF r.tool THEN ToolTerminatePayload(res) ELSE "none"],
              res)
    ELSE IF r.undo
    THEN Done([r EXCEPT !.payload = ToolCreateInfoFailed], "infoerror")
    ELSE [r EXCEPT !.pc = "k_loop",
                   !.cleaned = IF res = "ok" THEN @ \cup {r.sid} ELSE @]

\* ids a caller asks to terminate: a live one, one with a file, or a stale one
TerminateIds == (DOMAIN stores[canon]) \cup (DOMAIN disk) \cup {OldId1}

CallTerminate(t, id) ==
    /\ CanCall(t)
    /\ id \in TerminateIds
    /\ th' = StartCall(t, [Started(t, "terminate") EXCEPT !.pc = "t_check", !.sid = id])
    /\ lastCall' = NoCall
    /\ UNCHANGED <<legacyVars, corrupted, now, devState, disk, max_sessions, auto_cleanup_hours, stores,
                   canon, nCanon, serial>>

\* the MCP tool ios_terminate_session: takes the accessor's store and runs
\* terminate_session on a worker, with whatever id the client sent
CallToolTerminate(t, id) ==
    /\ CanCall(t)
    /\ id \in TerminateIds
    /\ th' = StartCall(t, [Started(t, "terminate") EXCEPT !.pc = "t_check", !.sid = id,
                                                          !.tool = TRUE])
    /\ lastCall' = NoCall
    /\ UNCHANGED <<legacyVars, corrupted, now, devState, disk, max_sessions, auto_cleanup_hours, stores,
                   canon, nCanon, serial>>

\* line 166: if session_id not in self.sessions
TermCheck(t) ==
    /\ th[t].pc = "t_check"
    /\ th' = [th EXCEPT ![t] =
                IF th[t].sid \in DOMAIN stores[th[t].self]
                THEN [@ EXCEPT !.pc = "t_read", !.saw = TRUE]
                ELSE [@ EXCEPT !.pc = "t_orphan"]]
    /\ UNCHANGED <<legacyVars, corrupted, now, devState, disk, max_sessions, auto_cleanup_hours, stores,
                   canon, nCanon, serial, lastCall>>

\* line 168-173: session_file.exists(), else SessionError
TermOrphan(t) ==
    /\ th[t].pc = "t_orphan"
    /\ th' = [th EXCEPT ![t] =
                IF th[t].sid \in DOMAIN disk
                THEN [@ EXCEPT !.pc = "t_unlink"]
                ELSE TermExit(@, "notfound")]
    /\ UNCHANGED <<legacyVars, corrupted, now, devState, disk, max_sessions, auto_cleanup_hours, stores,
                   canon, nCanon, serial, lastCall>>

\* an orphan cleanup that reports success and leaves the file
TermOrphanKeep(t) ==
    /\ th[t].pc = "t_unlink"
    /\ th' = [th EXCEPT ![t] = TermExit(@, "ok")]
    /\ UNCHANGED <<legacyVars, corrupted, now, devState, disk, max_sessions, auto_cleanup_hours, stores,
                   canon, nCanon, serial, lastCall>>

\* line 170: session_file.unlink() (FileNotFoundError when the file has gone)
TermOrphanUnlink(t) ==
    /\ th[t].pc = "t_unlink"
    /\ IF th[t].sid \in DOMAIN disk
       THEN /\ disk' = Del(disk, th[t].sid)
            /\ th' = [th EXCEPT ![t] = TermExit(@, "ok")]
       ELSE /\ disk' = disk
            /\ th' = [th EXCEPT ![t] = TermExit(@, "oserror")]
    /\ UNCHANGED <<legacyVars, corrupted, now, devState, max_sessions, auto_cleanup_hours, stores,
                   canon, nCanon, serial, lastCall>>

\* line 176: session_info = self.sessions[session_id] (KeyError when removed meanwhile)
TermRead(t) ==
    /\ th[t].pc = "t_read"
    /\ th' = [th EXCEPT ![t] =
                IF th[t].sid \in DOMAIN stores[th[t].self]
                THEN [@ EXCEPT !.pc = "t_dev", !.info = stores[th[t].self][th[t].sid]]
                ELSE TermExit(@, "keyerror")]
    /\ UNCHANGED <<legacyVars, corrupted, now, devState, disk, max_sessions, auto_cleanup_hours, stores,
                   canon, nCanon, serial, lastCall>>

\* a terminate_session that gives up when the shutdown request raises
TermDeviceAbort(t) ==
    /\ th[t].pc = "t_dev"
    /\ IF WantsShutdown(th[t].info)
       THEN \/ /\ devState' = [devState EXCEPT ![th[t].info.device_udid] = "shutdown"]
               /\ th' = [th EXCEPT ![t].pc = "t_del", ![t].shut = @ \cup {th[t].sid}]
            \/ /\ devState' = devState
               /\ th' = [th EXCEPT ![t] = TermExit([@ EXCEPT !.shut = @ \cup {th[t].sid}],
                                                    "deverror")]
       ELSE /\ devState' = devState
            /\ th' = [th EXCEPT ![t].pc = "t_del"]
    /\ UNCHANGED <<legacyVars, corrupted, now, disk, max_sessions, auto_cleanup_hours, stores,
                   canon, nCanon, serial, lastCall>>

\* line 179-188: best-effort shutdown of an auto-booted simulator; get_device
\* may raise before the request is made, the request may fail, and either
\* failure is only printed
TermDevice(t) ==
    /\ th[t].pc = "t_dev"
    /\ IF WantsShutdown(th[t].info)
       THEN \/ /\ \E ok \in BOOLEAN :
                    devState' = IF ok
                                THEN [devState EXCEPT ![th[t].info.device_udid] = "shutdown"]
                                ELSE devState
               /\ th' = [th EXCEPT ![t].pc = "t_del", ![t].shut = @ \cup {th[t].sid}]
            \/ /\ devState' = devState
               /\ th' = [th EXCEPT ![t].pc = "t_del"]
       ELSE /\ devState' = devState
            /\ th' = [th EXCEPT ![t].pc = "t_del"]
    /\ UNCHANGED <<legacyVars, corrupted, now, disk, max_sessions, auto_cleanup_hours, stores,
                   canon, nCanon, serial, lastCall>>

\* line 191: del self.sessions[session_id] (KeyError when removed meanwhile)
TermDel(t) ==
    /\ th[t].pc = "t_del"
    /\ IF th[t].sid \in DOMAIN stores[th[t].self]
       THEN /\ stores' = [stores EXCEPT ![th[t].self] = Del(@, th[t].sid)]
            /\ th' = [th EXCEPT ![t].pc = "t_fexists"]
       ELSE /\ stores' = stores
            /\ th' = [th EXCEPT ![t] = TermExit(@, "keyerror")]
    /\ UNCHANGED <<legacyVars, corrupted, now, devState, disk, max_sessions, auto_cleanup_hours,
                   canon, nCanon, serial, lastCall>>

\* _delete_session_file line 714: if session_file.exists()
TermFileExists(t) ==
    /\ th[t].pc = "t_fexists"
    /\ th' = [th EXCEPT ![t] =
                IF th[t].sid \in DOMAIN disk
                THEN [@ EXCEPT !.pc = "t_funlink"]
                ELSE TermExit(@, "ok")]
    /\ UNCHANGED <<legacyVars, corrupted, now, devState, disk, max_sessions, auto_cleanup_hours, stores,
                   canon, nCanon, serial, lastCall>>

\* _delete_session_file line 715: session_file.unlink()
TermFileUnlink(t) ==
    /\ th[t].pc = "t_funlink"
    /\ IF th[t].sid \in DOMAIN disk
       THEN /\ disk' = Del(disk, th[t].sid)
            /\ th' = [th EXCEPT ![t] = TermExit(@, "ok")]
       ELSE /\ disk' = disk
            /\ th' = [th EXCEPT ![t] = TermExit(@, "oserror")]
    /\ UNCHANGED <<legacyVars, corrupted, now, devState, max_sessions, auto_cleanup_hours, stores,
                   canon, nCanon, serial, lastCall>>

\* ---------------------------------------------- cleanup_inactive_sessions
\* ages a direct caller passes
CleanupAges == {AggressiveAgeHours}

CallCleanup(t, age) ==
    /\ CanCall(t)
    /\ th' = StartCall(t, [Started(t, "cleanup") EXCEPT !.pc = "k_snap", !.age = age])
    /\ lastCall' = NoCall
    /\ UNCHANGED <<legacyVars, corrupted, now, devState, disk, max_sessions, auto_cleanup_hours, stores,
                   canon, nCanon, serial>>

\* periodic_cleanup(): max_age_hours defaults to self.auto_cleanup_hours
CallPeriodicCleanup(t) ==
    /\ CanCall(t)
    /\ th' = StartCall(t, [Started(t, "periodic") EXCEPT !.pc = "k_snap",
                                                          !.age = auto_cleanup_hours])
    /\ lastCall' = NoCall
    /\ UNCHANGED <<legacyVars, corrupted, now, devState, disk, max_sessions, auto_cleanup_hours, stores,
                   canon, nCanon, serial>>

\* a reaper that takes every session, whatever its age
ExpiredAll(tab, t, age) == DOMAIN tab
\* a reaper that takes no session
ExpiredNone(tab, t, age) == {}
\* a reaper that also takes the sessions whose age equals the threshold
ExpiredAtLeast(tab, t, age) == {i \in DOMAIN tab : Age(t, tab[i].created_at) >= age}
\* line 345-352: the sessions of the snapshot whose age exceeds the threshold
Expired(tab, t, age) == {i \in DOMAIN tab : Age(t, tab[i].created_at) > age}

CleanupSnap(t) ==
    /\ th[t].pc = "k_snap"
    /\ th' = [th EXCEPT ![t].pc = "k_loop",
                        ![t].todo = Expired(stores[th[t].self], now, th[t].age),
                        ![t].cleaned = {}]
    /\ UNCHANGED <<legacyVars, corrupted, now, devState, disk, max_sessions, auto_cleanup_hours, stores,
                   canon, nCanon, serial, lastCall>>

\* line 349-362: terminate the next expired session, or return the cleaned ids
CleanupLoop(t) ==
    /\ th[t].pc = "k_loop"
    /\ IF th[t].todo = {}
       THEN th' = [th EXCEPT ![t] =
                     IF th[t].op \in {"create", "toolcreate"}
                     THEN [@ EXCEPT !.pc = "c_recheck"]
                     ELSE Done(@, "ok")]
       ELSE \E id \in th[t].todo :
              th' = [th EXCEPT ![t].pc = "t_check", ![t].sid = id,
                               ![t].saw = FALSE, ![t].info = NoInfo,
                               ![t].todo = @ \ {id}]
    /\ UNCHANGED <<legacyVars, corrupted, now, devState, disk, max_sessions, auto_cleanup_hours, stores,
                   canon, nCanon, serial, lastCall>>

\* ---------------------------------------------------------- create_session
\* outcomes of making device u usable (line 507-516 and 547-554); boot_device
\* and wait_for_device end either way within their timeout
\* a preparation that issues the boot and goes on without waiting for it
PrepareNoWait(ds, u, cfg, byUdid) ==
    IF IsDeviceAvailable(ds, u)
    THEN {[res |-> "ok", dev |-> u, ds |-> ds]}
    ELSE IF DeviceTypeOf(u) = "SIMULATOR" /\ cfg.autoboot
    THEN {[res |-> "ok", dev |-> u, ds |-> [ds EXCEPT ![u] = "booted"]],
          [res |-> "ok", dev |-> u, ds |-> ds]}
    ELSE {[res |-> "devnotavail", dev |-> NoUdid, ds |-> ds]}
Prepare(ds, u, cfg, byUdid) ==
    IF IsDeviceAvailable(ds, u)
    THEN {[res |-> "ok", dev |-> u, ds |-> ds]}
    ELSE IF DeviceTypeOf(u) = "SIMULATOR" /\ cfg.autoboot
    THEN {[res |-> "ok", dev |-> u, ds |-> [ds EXCEPT ![u] = "booted"]],
          [res |-> "devnotavail", dev |-> NoUdid, ds |-> ds]}
    ELSE IF DeviceTypeOf(u) = "REAL_DEVICE" /\ byUdid
    THEN {[res |-> "ok", dev |-> u, ds |-> [ds EXCEPT ![u] = "connected"]],
          [res |-> "devnotavail", dev |-> NoUdid, ds |-> ds]}
    ELSE {[res |-> "devnotavail", dev |-> NoUdid, ds |-> ds]}

\* first element of sequence q that is available, 0 if none (line 540-542)
RECURSIVE FirstAvailable(_, _, _)
FirstAvailable(q, i, ds) ==
    IF i > Len(q) THEN 0
    ELSE IF ds[q[i]] \in {"booted", "connected"} THEN i
    ELSE FirstAvailable(q, i + 1, ds)

\* _find_or_prepare_device
FindOrPrepareDevice(cfg, ds) ==
    IF cfg.device_udid # NoUdid
    THEN IF cfg.device_udid \notin Devices
         THEN {[res |-> "devnotfound", dev |-> NoUdid, ds |-> ds]}
         ELSE Prepare(ds, cfg.device_udid, cfg, TRUE)
    ELSE LET candidates == DiscoverAllDevices
             a == FirstAvailable(candidates, 1, ds)
         IN  IF Len(candidates) = 0
             THEN {[res |-> "devnotfound", dev |-> NoUdid, ds |-> ds]}
             ELSE IF a # 0
             THEN {[res |-> "ok", dev |-> candidates[a], ds |-> ds]}
             ELSE Prepare(ds, candidates[1], cfg, FALSE)

\* how a create_session that ends with `res` continues: a direct call returns;
\* in a tool call an exception becomes the error payload (mcp/tools.py line
\* 227-231, 360-361) and a session id is followed by get_session_info
CreateExit(r, res) ==
    IF r.op = "create" THEN Done(r, res)
    ELSE IF res = "ok" THEN [Done(r, res) EXCEPT !.pc = "tc_info"]
    ELSE Done([r EXCEPT !.payload = "error"], res)

CallCreate(t, cfg) ==
    /\ CanCall(t)
    /\ th' = StartCall(t, [Started(t, "create") EXCEPT !.pc = "c_check", !.cfg = cfg])
    /\ lastCall' = NoCall
    /\ UNCHANGED <<legacyVars, corrupted, now, devState, disk, max_sessions, auto_cleanup_hours, stores,
                   canon, nCanon, serial>>

\* a store that never counts itself full
AtCapacityNever(tab, maxs) == FALSE
\* a faulty capacity test that lets one session too many in
AtCapacityStrict(tab, maxs) == Size(tab) > maxs
\* line 110 and 115: len(self.sessions) >= self.max_sessions
AtCapacity(tab, maxs) == Size(tab) >= maxs

\* line 110-112: at capacity, first run cleanup_inactive_sessions(max_age_hours=1)
CreateCheck(t) ==
    /\ th[t].pc = "c_check"
    /\ th' = [th EXCEPT ![t] =
                IF AtCapacity(stores[th[t].self], max_sessions)
                THEN [@ EXCEPT !.pc = "k_snap", !.age = AggressiveAgeHours]
                ELSE [@ EXCEPT !.pc = "c_find"]]
    /\ UNCHANGED <<legacyVars, corrupted, now, devState, disk, max_sessions, auto_cleanup_hours, stores,
                   canon, nCanon, serial, lastCall>>

\* line 115-119: still at capacity after the cleanup: SessionError
CreateRecheck(t) ==
    /\ th[t].pc = "c_recheck"
    /\ th' = [th EXCEPT ![t] =
                IF AtCapacity(stores[th[t].self], max_sessions)
                THEN CreateExit(@, "capacity")
                ELSE [@ EXCEPT !.pc = "c_find"]]
    /\ UNCHANGED <<legacyVars, corrupted, now, devState, disk, max_sessions, auto_cleanup_hours, stores,
                   canon, nCanon, serial, lastCall>>

\* a create_session that enters the session before it looks for the device
CreateFindEager(t) ==
    /\ th[t].pc = "c_find"
    /\ \E o \in FindOrPrepareDevice(th[t].cfg, devState) :
         LET id == [ts |-> now, ent |-> 0]
             info == SessionInfo(id, th[t].cfg.device_udid, "SIMULATOR", now,
                                 th[t].cfg.autoboot)
         IN  /\ devState' = o.ds
             /\ stores' = [stores EXCEPT ![th[t].self] = Put(@, id, info)]
             /\ disk' = Put(disk, id, FileOf(info))
             /\ th' = [th EXCEPT ![t] =
                         IF o.res = "ok"
                         THEN [@ EXCEPT !.pc = "c_store", !.dev = o.dev]
                         ELSE CreateExit(@, o.res)]
    /\ UNCHANGED <<legacyVars, corrupted, now, max_sessions, auto_cleanup_hours,
                   canon, nCanon, serial, lastCall>>
\* line 125: device = self._find_or_prepare_device(config)
CreateFind(t) ==
    /\ th[t].pc = "c_find"
    /\ \E o \in FindOrPrepareDevice(th[t].cfg, devState) :
         /\ devState' = o.ds
         /\ th' = [th EXCEPT ![t] =
                     IF o.res = "ok"
                     THEN [@ EXCEPT !.pc = "c_store", !.dev = o.dev]
                     ELSE CreateExit(@, o.res)]
    /\ UNCHANGED <<legacyVars, corrupted, now, disk, max_sessions, auto_cleanup_hours, stores,
                   canon, nCanon, serial, lastCall>>

\* _generate_session_id: "<name>_<int(time.time())>_<8 hex digits>"
GenerateSessionId(t, e) == [ts |-> t, ent |-> e]

\* line 128-147: generate the id, build the SessionInfo, self.sessions[id] = info
CreateStore(t) ==
    /\ th[t].pc = "c_store"
    /\ \E e \in Entropy :
         LET id == GenerateSessionId(now, e)
             info == SessionInfo(id, th[t].dev, DeviceTypeOf(th[t].dev), now,
                                 th[t].cfg.autoboot)
         IN  /\ stores' = [stores EXCEPT ![th[t].self] = Put(@, id, info)]
             /\ th' = [th EXCEPT ![t].pc = "c_save", ![t].val = id, ![t].info = info]
    /\ UNCHANGED <<legacyVars, corrupted, now, devState, disk, max_sessions, auto_cleanup_hours,
                   canon, nCanon, serial, lastCall>>

\* line 148: self._save_session(session_info), then return session_id (the
\* record keeps the device the session was bound to)
CreateSave(t) ==
    /\ th[t].pc = "c_save"
    /\ disk' = Put(disk, th[t].val, FileOf(th[t].info))
    /\ th' = [th EXCEPT ![t] = CreateExit([@ EXCEPT !.udid = th[t].dev], "ok")]
    /\ UNCHANGED <<legacyVars, corrupted, now, devState, max_sessions, auto_cleanup_hours, stores,
                   canon, nCanon, serial, lastCall>>

\* --------------------------------------------------- the session-creating tools
\* the SessionConfig a tool builds: ios_create_session from its arguments,
\* ios_create_automation_session with autoboot and without a udid
ToolCfgs(automation) ==
    IF automation THEN {[device_udid |-> NoUdid, autoboot |-> TRUE]} ELSE Cfgs

\* ios_create_session / ios_create_automation_session: take the accessor's
\* store and run create_session on a worker
CallToolCreate(t, automation, cfg) ==
    /\ CanCall(t)
    /\ cfg \in ToolCfgs(automation)
    /\ th' = StartCall(t, [Started(t, "toolcreate") EXCEPT !.pc = "c_check", !.cfg = cfg,
                                                           !.tool = TRUE, !.auto = automation])
    /\ lastCall' = NoCall
    /\ UNCHANGED <<legacyVars, corrupted, now, devState, disk, max_sessions, auto_cleanup_hours, stores,
                   canon, nCanon, serial>>

\* an ios_create_automation_session that also terminates a session without info
UndoesAlways(automation) == TRUE
\* only ios_create_session wraps get_session_info in a try whose handler
\* terminates the session (line 234-240); ios_create_automation_session has
\* the one outer handler (line 360-361)
UndoesOnInfoFailure(automation) == ~automation

\* get_session_info on a worker (session_manager.py line 210-234): SessionError
\* when the id is not in the table, and whatever get_device or
\* get_device_capabilities raise; then the tool returns the session's payload,
\* or terminates the session and returns the error, or only returns the error
ToolCreateInfo(t) ==
    /\ th[t].pc = "tc_info"
    /\ \E raises \in BOOLEAN :
         th' = [th EXCEPT ![t] =
                 IF th[t].val \in DOMAIN stores[th[t].self] /\ ~raises
                 THEN Done([@ EXCEPT !.payload = "success"], "ok")
                 ELSE IF UndoesOnInfoFailure(th[t].auto)
                 THEN [@ EXCEPT !.pc = "t_check", !.sid = th[t].val, !.undo = TRUE,
                                !.saw = FALSE]
                 ELSE Done([@ EXCEPT !.payload = ToolCreateInfoFailed], "infoerror")]
    /\ UNCHANGED <<legacyVars, corrupted, now, devState, disk, max_sessions, auto_cleanup_hours, stores,
                   canon, nCanon, serial, lastCall>>

\* ------------------------------------------------------------ the resolver
\* what _looks_like_session_id reads of a target string: its length, its number
\* of underscores, and whether it starts with session_, automation_ or mcp_.
\* A generated id is "session_" + 10 digits + "_" + 8 hex digits, a udid has
\* 36 characters and no underscore.
TargetShape(id, raw) ==
    IF id # NoId THEN [len |-> 27, underscores |-> 2, prefixed |-> TRUE]
    ELSE [len |-> 36, underscores |-> 0, prefixed |-> FALSE]

\* a test that takes every string for a session id
LooksAlways(shape) == TRUE
\* _looks_like_session_id
LooksLikeSessionId(shape) ==
    /\ shape.underscores >= 1
    /\ shape.len > 10
    /\ (shape.prefixed \/ shape.underscores >= 2)

\* a tool call on a session (ios_open_url, get_manager_for_session): validate the
\* id against the accessor's store, make a fresh manager, hand it the accessor's
\* store, then resolve the id on a worker
CallToolResolve(t, id) ==
    /\ CanCall(t)
    /\ id \in DOMAIN stores[canon]
    /\ th' = StartCall(t, [Started(t, "resolve") EXCEPT !.pc = "r_resolve", !.sid = id,
                                                        !.sm = canon, !.got = canon])
    /\ lastCall' = NoCall
    /\ UNCHANGED <<legacyVars, corrupted, now, devState, disk, max_sessions, auto_cleanup_hours, stores,
                   canon, nCanon, serial>>

\* targets a caller hands to a configured manager without validating them first:
\* a raw udid, or a session id the store or the directory has seen
Targets == [id : {NoId}, raw : Simulators] \cup [id : (DOMAIN disk) \cup {OldId1}, raw : {NoUdid}]

\* a manager set up with the accessor's store resolves a target
CallResolve(t, target) ==
    /\ CanCall(t)
    /\ th' = StartCall(t, [Started(t, "resolve") EXCEPT !.pc = "r_resolve",
                              !.sid = target.id, !.raw = target.raw,
                              !.sm = canon, !.got = canon])
    /\ lastCall' = NoCall
    /\ UNCHANGED <<legacyVars, corrupted, now, devState, disk, max_sessions, auto_cleanup_hours, stores,
                   canon, nCanon, serial>>

\* a manager that was never handed the accessor's store
ConfiguredNever(sm, st, id) == FALSE
\* Strategy 1 (line 154-160): the configured manager knows the session
ConfiguredKnows(sm, st, id) == sm # 0 /\ id \in DOMAIN st[sm]

\* _resolve_target on a string, with _get_device_udid_from_session:
\*   1. the configured session manager; 2. get_session_manager_for_session, which
\*   mcp/tools.py does not define (ImportError); 3. a new UnifiedSessionManager()
\*   that loads the session directory and is kept when it knows the id
ResolveTarget(t) ==
    /\ th[t].pc = "r_resolve"
    /\ LET id == th[t].sid
       IN  IF ~LooksLikeSessionId(TargetShape(id, th[t].raw))
           THEN /\ th' = [th EXCEPT ![t] = Done([@ EXCEPT !.udid = th[t].raw], "ok")]
                /\ UNCHANGED <<legacyVars, corrupted, devState, disk, stores>>
           ELSE IF ConfiguredKnows(th[t].sm, stores, id)
           THEN /\ th' = [th EXCEPT ![t] =
                           Done([@ EXCEPT !.udid = stores[th[t].sm][id].device_udid], "ok")]
                /\ UNCHANGED <<legacyVars, corrupted, devState, disk, stores>>
           ELSE \E order \in GlobOrders(disk, now, auto_cleanup_hours) :
                  LET fb == Construct(disk, devState, now, auto_cleanup_hours,
                                      max_sessions, order)
                      k == NewStoreId(stores)
                  IN  /\ disk' = fb.disk
                      /\ corrupted' = corrupted \cup fb.backup
                      /\ devState' = fb.dev
                      /\ IF id \in DOMAIN fb.sessions
                         THEN /\ th' = [th EXCEPT ![t] =
                                         Done([@ EXCEPT !.sm = k,
                                                 !.udid = fb.sessions[id].device_udid], "ok")]
                              /\ stores' = Collect(Put(stores, k, fb.sessions), canon, th')
                         ELSE /\ stores' = stores
                              /\ th' = [th EXCEPT ![t] = Done(@, "notfound")]
    /\ UNCHANGED <<legacyVars, now, max_sessions, auto_cleanup_hours, canon, nCanon, serial,
                   lastCall>>

\* ------------------------------------------------------------ environment
\* the caller takes the result of a finished call
Return(t) ==
    /\ th[t].pc = "done"
    /\ th' = [th EXCEPT ![t] = IdleTh]
    /\ lastCall' = IF serial /\ th[t].res = "ok" /\ th[t].op \in {"create", "terminate"}
                   THEN [op |-> th[t].op,
                         id |-> IF th[t].op = "create" THEN th[t].val ELSE th[t].sid,
                         udid |-> th[t].udid, dir |-> EmptyTable]
                   ELSE lastCall
    /\ stores' = Collect(stores, canon, th')
    /\ UNCHANGED <<legacyVars, corrupted, now, devState, disk, max_sessions, auto_cleanup_hours,
                   canon, nCanon, serial>>

\* the clock counts hours and a call takes seconds: the hour turns between calls
Tick ==
    /\ now < MaxTime
    /\ AllIdle
    /\ now' = now + 1
    /\ lastCall' = NoCall
    /\ UNCHANGED <<legacyVars, corrupted, devState, disk, max_sessions, auto_cleanup_hours, stores, canon,
                   nCanon, th, serial>>

\* the process ends and a new one starts on the same session directory
Restart ==
    /\ AllIdle
    /\ canon # 0
    /\ canon' = 0
    /\ nCanon' = 0
    /\ stores' = EmptyTable
    /\ lastCall' = NoCall
    /\ UNCHANGED <<legacyVars, corrupted, now, devState, disk, max_sessions, auto_cleanup_hours, th, serial>>

InitCommon ==
    /\ now \in 0..MaxTime
    /\ devState = [u \in Devices |-> IF u \in Simulators THEN "shutdown" ELSE "disconnected"]
    /\ disk \in InitialDisks
    /\ corrupted = {}
    /\ max_sessions \in 1..MaxSessionsBound
    /\ auto_cleanup_hours \in 1..MaxAutoCleanup
    /\ stores = EmptyTable
    /\ canon = 0
    /\ nCanon = 0
    /\ th = [t \in Threads |-> IdleTh]
    /\ lastCall = NoCall
    /\ clock = 0
    /\ detector = NoCache
    /\ simmgr = NoCache
    /\ leg = IdleLeg
    /\ layer \in {"detector", "simmgr"}

Init == InitCommon /\ serial = TRUE /\ now = 0 /\ layer = "detector"
InitConc ==
    /\ InitCommon
    /\ serial = FALSE
    /\ layer = "detector"
    /\ disk = Put(EmptyTable, OldId1, CraftedOk1)
    /\ now = MaxTime
    /\ auto_cleanup_hours = MaxAutoCleanup

Next ==
    \/ GetUnifiedSessionManager
    \/ \E t \in Threads, cfg \in Cfgs : CallCreate(t, cfg)
    \/ \E t \in Threads : CreateCheck(t)
    \/ \E t \in Threads : CreateRecheck(t)
    \/ \E t \in Threads : CreateFind(t)
    \/ \E t \in Threads : CreateStore(t)
    \/ \E t \in Threads : CreateSave(t)
    \/ \E t \in Threads, id \in Ids : CallTerminate(t, id)
    \/ \E t \in Threads, id \in Ids : CallToolTerminate(t, id)
    \/ \E t \in Threads : TermCheck(t)
    \/ \E t \in Threads : TermOrphan(t)
    \/ \E t \in Threads : TermOrphanUnlink(t)
    \/ \E t \in Threads : TermRead(t)
    \/ \E t \in Threads : TermDevice(t)
    \/ \E t \in Threads : TermDel(t)
    \/ \E t \in Threads : TermFileExists(t)
    \/ \E t \in Threads : TermFileUnlink(t)
    \/ \E t \in Threads, age \in CleanupAges : CallCleanup(t, age)
    \/ \E t \in Threads : CallPeriodicCleanup(t)
    \/ \E t \in Threads : CleanupSnap(t)
    \/ \E t \in Threads : CleanupLoop(t)
    \/ \E t \in Threads, id \in Ids : CallToolResolve(t, id)
    \/ \E t \in Threads, target \in Targets : CallResolve(t, target)
    \/ \E t \in Threads : ResolveTarget(t)
    \/ \E t \in Threads : Return(t)
    \/ Tick
    \/ Restart

Spec == Init /\ [][Next]_vars

\* overlapping calls: the tools' default configuration, on one process
ConcCfgs == {[device_udid |-> NoUdid, autoboot |-> TRUE]}
NextConc ==
    \/ GetUnifiedSessionManager
    \/ \E t \in Threads, cfg \in ConcCfgs : CallCreate(t, cfg)
    \/ \E t \in Threads : CreateCheck(t)
    \/ \E t \in Threads : CreateRecheck(t)
    \/ \E t \in Threads : CreateFind(t)
    \/ \E t \in Threads : CreateStore(t)
    \/ \E t \in Threads : CreateSave(t)
    \/ \E t \in Threads, id \in Ids : CallTerminate(t, id)
    \/ \E t \in Threads : TermCheck(t)
    \/ \E t \in Threads : TermOrphan(t)
    \/ \E t \in Threads : TermOrphanUnlink(t)
    \/ \E t \in Threads : TermRead(t)
    \/ \E t \in Threads : TermDevice(t)
    \/ \E t \in Threads : TermDel(t)
    \/ \E t \in Threads : TermFileExists(t)
    \/ \E t \in Threads : TermFileUnlink(t)
    \/ \E t \in Threads : CleanupSnap(t)
    \/ \E t \in Threads : CleanupLoop(t)
    \/ \E t \in Threads, id \in Ids : CallToolResolve(t, id)
    \/ \E t \in Threads : ResolveTarget(t)
    \/ \E t \in Threads : Return(t)
SpecConc == InitConc /\ [][NextConc]_vars

\* a client that creates its sessions through the tools
NextTools ==
    \/ GetUnifiedSessionManager
    \/ \E t \in Threads, automation \in BOOLEAN, cfg \in Cfgs : CallToolCreate(t, automation, cfg)
    \/ \E t \in Threads : CreateCheck(t)
    \/ \E t \in Threads : CreateRecheck(t)
    \/ \E t \in Threads : CreateFind(t)
    \/ \E t \in Threads : CreateStore(t)
    \/ \E t \in Threads : CreateSave(t)
    \/ \E t \in Threads : ToolCreateInfo(t)
    \/ \E t \in Threads : TermCheck(t)
    \/ \E t \in Threads : TermRead(t)
    \/ \E t \in Threads : TermDevice(t)
    \/ \E t \in Threads : TermDel(t)
    \/ \E t \in Threads : TermFileExists(t)
    \/ \E t \in Threads : TermFileUnlink(t)
    \/ \E t \in Threads : CleanupSnap(t)
    \/ \E t \in Threads : CleanupLoop(t)
    \/ \E t \in Threads : Return(t)
    \/ Tick
SpecTools == Init /\ [][NextTools]_vars

\* ------------------------------------------------------------ device layer
\* device_detector.py line 96: 'Booted' if device['state'] == 'Booted' else 'Shutdown'
DetectorState(s) == IF s = "booted" THEN "Booted" ELSE "Shutdown"
\* device_detector.py line 148
RealDeviceState(s) == IF s = "connected" THEN "Connected" ELSE "Disconnected"
\* SimulatorManager._normalize_state: Booting counts as Booted
NormalizeState(s) ==
    IF s \in {"booted", "booting"} THEN "Booted"
    ELSE IF s = "shutdown" THEN "Shutdown" ELSE "Unknown"

\* what DeviceDetector lists when `simctl list` succeeds (simsOk) or fails: a
\* failed part is printed as a warning and left out (line 66-78)
DetectorListing(ds, simsOk) ==
    [u \in (IF simsOk THEN Simulators ELSE {}) \cup RealDevices |->
        IF u \in Simulators THEN DetectorState(ds[u]) ELSE RealDeviceState(ds[u])]
\* what SimulatorManager lists
SimulatorListing(ds) == [u \in Simulators |-> NormalizeState(ds[u])]

\* a cache test that still serves a listing that is exactly 30 seconds old
CacheValidInclusive(c, refresh, t) == ~refresh /\ c.has /\ t - c.last <= CacheTimeout
\* line 57-59 (device_detector.py) and 40-42 (simulator_manager.py)
CacheValid(c, refresh, t) == ~refresh /\ c.has /\ t - c.last < CacheTimeout

LegIdle(l) == leg.pc = "idle" /\ layer = l

\* DeviceDetector.discover_all_devices(refresh_cache) on cache c at time t: the
\* outcomes, each with the cache it leaves and the list it returns
Discover(c, refresh, t, ds) ==
    IF CacheValid(c, refresh, t)
    THEN {[cache |-> c, ret |-> c.devs, ran |-> FALSE, failed |-> FALSE]}
    ELSE {[cache |-> [has |-> TRUE, devs |-> DetectorListing(ds, simsOk), last |-> t],
           ret |-> DetectorListing(ds, simsOk), ran |-> TRUE, failed |-> ~simsOk] :
          simsOk \in BOOLEAN}

DetectorDiscover(refresh) ==
    /\ LegIdle("detector")
    /\ \E o \in Discover(detector, refresh, clock, devState) :
         /\ detector' = o.cache
         /\ leg' = [IdleLeg EXCEPT !.pc = "done", !.op = "discover", !.refresh = refresh,
                                   !.res = "ok", !.ret = o.ret, !.ran = o.ran,
                                   !.failed = o.failed, !.c0 = detector]
    /\ UNCHANGED <<storeVars, devState, clock, simmgr, layer>>

\* SimulatorManager.list_available_simulators(refresh_cache): a failed
\* `simctl list` raises (run_command, check=True)
ListAvailableSimulators(refresh) ==
    /\ LegIdle("simmgr")
    /\ IF CacheValid(simmgr, refresh, clock)
       THEN /\ simmgr' = simmgr
            /\ leg' = [IdleLeg EXCEPT !.pc = "done", !.op = "list", !.refresh = refresh,
                                      !.res = "ok", !.ret = simmgr.devs, !.c0 = simmgr]
       ELSE \/ LET simulators == SimulatorListing(devState)
               IN  /\ simmgr' = [has |-> TRUE, devs |-> simulators, last |-> clock]
                   /\ leg' = [IdleLeg EXCEPT !.pc = "done", !.op = "list",
                                             !.refresh = refresh, !.res = "ok",
                                             !.ret = simulators, !.ran = TRUE,
                                             !.c0 = simmgr]
            \/ /\ simmgr' = simmgr
               /\ leg' = [IdleLeg EXCEPT !.pc = "done", !.op = "list", !.refresh = refresh,
                                         !.res = "error", !.ran = TRUE, !.failed = TRUE,
                                         !.c0 = simmgr]
    /\ UNCHANGED <<storeVars, devState, clock, detector, layer>>

\* `simctl shutdown`: a simulator that is shut down already makes the command
\* exit non-zero ("Unable to shutdown device in current state: Shutdown"); one
\* that runs is shut down, or the command fails for another reason
SimctlShutdown(ds, u) ==
    IF ds[u] = "shutdown"
    THEN {[ok |-> FALSE, ds |-> ds]}
    ELSE {[ok |-> TRUE, ds |-> [ds EXCEPT ![u] = "shutdown"]], [ok |-> FALSE, ds |-> ds]}

\* SimulatorManager.shutdown_simulator_by_udid(udid): the cache is dropped when
\* the command succeeds, any failure of the command is raised as SimulatorError
ShutdownSimulatorByUdid(u) ==
    /\ LegIdle("simmgr")
    /\ \E o \in SimctlShutdown(devState, u) :
         /\ devState' = o.ds
         /\ IF o.ok
            THEN /\ simmgr' = [simmgr EXCEPT !.has = FALSE, !.devs = EmptyTable]
                 /\ leg' = [IdleLeg EXCEPT !.pc = "done", !.op = "shutdown", !.udid = u,
                                           !.res = "ok", !.sent = TRUE, !.c0 = simmgr,
                                           !.was = devState[u]]
            ELSE /\ simmgr' = simmgr
                 /\ leg' = [IdleLeg EXCEPT !.pc = "done", !.op = "shutdown", !.udid = u,
                                           !.res = "error", !.sent = TRUE, !.c0 = simmgr,
                                           !.was = devState[u]]
    /\ UNCHANGED <<storeVars, clock, detector, layer>>

\* `simctl boot`: starts a simulator that is shut down, fails otherwise or for
\* another reason
SimctlBoot(ds, u) ==
    IF ds[u] = "shutdown"
    THEN {[ok |-> TRUE, ds |-> [ds EXCEPT ![u] = "booting"]], [ok |-> FALSE, ds |-> ds]}
    ELSE {[ok |-> FALSE, ds |-> ds]}

\* timeouts a caller passes to boot_simulator_by_udid
Timeouts == 0..MaxTimeout

\* boot_simulator_by_udid line 92-102: fresh listing, return when booted, else
\* issue the boot
BootSimulatorByUdid(u, timeout) ==
    /\ LegIdle("simmgr")
    /\ clock + timeout + 2 <= MaxClock
    /\ LET call == [IdleLeg EXCEPT !.op = "boot", !.udid = u, !.timeout = timeout,
                                   !.c0 = simmgr, !.ran = TRUE,
                                   !.was = devState[u]]
       IN  \/ \* the listing fails: the error leaves the method
              /\ leg' = [call EXCEPT !.pc = "done", !.res = "error", !.failed = TRUE]
              /\ UNCHANGED <<simmgr, devState>>
           \/ /\ simmgr' = [has |-> TRUE, devs |-> SimulatorListing(devState), last |-> clock]
              /\ IF SimulatorListing(devState)[u] = "Booted"
                 THEN /\ leg' = [call EXCEPT !.pc = "done", !.res = "ok",
                                             !.ret = SimulatorListing(devState)]
                      /\ devState' = devState
                 ELSE \E o \in SimctlBoot(devState, u) :
                        /\ devState' = o.ds
                        /\ leg' = IF o.ok
                                  THEN [call EXCEPT !.pc = "b_poll", !.sent = TRUE]
                                  ELSE [call EXCEPT !.pc = "done", !.res = "error",
                                                    !.sent = TRUE]
    /\ UNCHANGED <<storeVars, clock, detector, layer>>

\* a wait loop that never counts its polls
PollsLeftAlways(attempts, timeout) == TRUE
\* line 106: while attempts < timeout
PollsLeft(attempts, timeout) == attempts < timeout

\* boot_simulator_by_udid line 106-119: one turn of the wait loop, or the
\* SimulatorError after the last one
BootPoll ==
    /\ leg.pc = "b_poll"
    /\ IF PollsLeft(leg.attempts, leg.timeout)
       THEN \/ \* listing ok and the simulator shows as Booted: sleep(2), return
               /\ SimulatorListing(devState)[leg.udid] = "Booted"
               /\ simmgr' = [has |-> TRUE, devs |-> SimulatorListing(devState),
                             last |-> clock]
               /\ clock' = clock + 2
               /\ leg' = [leg EXCEPT !.pc = "done", !.res = "ok",
                                     !.ret = SimulatorListing(devState)]
            \/ \* listing ok, not booted yet: sleep(1)
               /\ SimulatorListing(devState)[leg.udid] # "Booted"
               /\ simmgr' = [has |-> TRUE, devs |-> SimulatorListing(devState),
                             last |-> clock]
               /\ clock' = clock + 1
               /\ leg' = [leg EXCEPT !.attempts = @ + 1]
            \/ \* listing fails: except: pass, sleep(1)
               /\ simmgr' = simmgr
               /\ clock' = clock + 1
               /\ leg' = [leg EXCEPT !.attempts = @ + 1, !.failed = TRUE]
       ELSE /\ leg' = [leg EXCEPT !.pc = "done", !.res = "timeout"]
            /\ UNCHANGED <<simmgr, clock>>
    /\ UNCHANGED <<storeVars, devState, detector, layer>>

\* the simulator finishes booting, or is shut down from outside the program
SimulatorBoots(u) ==
    /\ devState[u] = "booting"
    /\ devState' = [devState EXCEPT ![u] = "booted"]
    /\ UNCHANGED <<storeVars, legacyVars>>
SimulatorStops(u) ==
    /\ devState[u] \in {"booting", "booted"}
    /\ devState' = [devState EXCEPT ![u] = "shutdown"]
    /\ UNCHANGED <<storeVars, legacyVars>>

\* legacy UnifiedSessionManager.create_session with the default criteria:
\* _find_target_device lists afresh and takes the first usable device, else the
\* first listed; _prepare_simulator boots a simulator that is not Booted
\* (autoboot) and then waits for it
LegacyCreateSession(autoboot) ==
    /\ LegIdle("detector")
    /\ clock + LegacyBootPolls + 2 <= MaxClock
    /\ \E o \in Discover(detector, TRUE, clock, devState) :
         LET usable == {u \in DOMAIN o.ret : o.ret[u] \in {"Booted", "Connected"}}
             target == IF usable # {} THEN CHOOSE u \in usable : TRUE
                       ELSE IF "S1" \in DOMAIN o.ret THEN "S1"
                       ELSE IF DOMAIN o.ret # {} THEN CHOOSE u \in DOMAIN o.ret : TRUE
                       ELSE NoUdid
             call == [IdleLeg EXCEPT !.op = "create", !.udid = target, !.c0 = detector,
                                     !.ran = TRUE, !.failed = o.failed,
                                     !.was = IF target = NoUdid THEN "none"
                                             ELSE devState[target]]
         IN  /\ detector' = o.cache
             /\ IF target = NoUdid
                THEN /\ leg' = [call EXCEPT !.pc = "done", !.res = "nodevice"]
                     /\ devState' = devState
                ELSE IF target \in Simulators /\ autoboot /\ o.ret[target] # "Booted"
                THEN \E b \in SimctlBoot(devState, target) :
                       /\ devState' = b.ds
                       /\ leg' = IF b.ok
                                 THEN [call EXCEPT !.pc = "p_poll", !.sent = TRUE]
                                 ELSE [call EXCEPT !.pc = "done", !.res = "error",
                                                   !.sent = TRUE]
                ELSE /\ leg' = [call EXCEPT !.pc = "done", !.res = "ok"]
                     /\ devState' = devState
    /\ UNCHANGED <<storeVars, clock, simmgr, layer>>

\* _prepare_simulator line 141-152: one turn of the wait loop (the state comes
\* from find_device_by_udid, that is discover_all_devices() without
\* refresh_cache), or the timeout after the last one
LegacyPreparePoll ==
    /\ leg.pc = "p_poll"
    /\ IF PollsLeft(leg.attempts, LegacyBootPolls)
       THEN \E o \in Discover(detector, FALSE, clock, devState) :
              /\ detector' = o.cache
              /\ IF leg.udid \in DOMAIN o.ret /\ o.ret[leg.udid] = "Booted"
                 THEN /\ clock' = clock + 2
                      /\ leg' = [leg EXCEPT !.pc = "done", !.res = "ok", !.ran = o.ran]
                 ELSE /\ clock' = clock + 1
                      /\ leg' = [leg EXCEPT !.attempts = @ + 1, !.ran = o.ran,
                                            !.missed = @ \/ (~o.ran /\ devState[leg.udid] = "booted")]
       ELSE /\ leg' = [leg EXCEPT !.pc = "done", !.res = "timeout"]
            /\ UNCHANGED <<detector, clock>>
    /\ UNCHANGED <<storeVars, devState, simmgr, layer>>

\* the caller takes the result
LegReturn ==
    /\ leg.pc = "done"
    /\ leg' = IdleLeg
    /\ UNCHANGED <<storeVars, devState, clock, detector, simmgr, layer>>

\* a second passes between two calls
ClockTick ==
    /\ leg.pc = "idle"
    /\ clock < MaxClock
    /\ clock' = clock + 1
    /\ UNCHANGED <<storeVars, devState, detector, simmgr, leg, layer>>

InitLegacy ==
    /\ InitCommon
    /\ serial = TRUE
    /\ now = 0
    /\ disk = EmptyTable
    /\ max_sessions = 1
    /\ auto_cleanup_hours = 1

NextLegacy ==
    \/ \E refresh \in BOOLEAN : DetectorDiscover(refresh)
    \/ \E refresh \in BOOLEAN : ListAvailableSimulators(refresh)
    \/ \E u \in Simulators : ShutdownSimulatorByUdid(u)
    \/ \E u \in Simulators, timeout \in Timeouts : BootSimulatorByUdid(u, timeout)
    \/ BootPoll
    \/ \E autoboot \in BOOLEAN : LegacyCreateSession(autoboot)
    \/ LegacyPreparePoll
    \/ \E u \in Simulators : SimulatorBoots(u)
    \/ \E u \in Simulators : SimulatorStops(u)
    \/ LegReturn
    \/ ClockTick
SpecLegacy == InitLegacy /\ [][NextLegacy]_vars
\* a call that has started keeps running: the wait loops take their turns
SpecLegacyFair == SpecLegacy /\ WF_vars(BootPoll) /\ WF_vars(LegacyPreparePoll)

\* ------------------------------------------------------------------ claims
\* a call of `op` on thread t has ended with result `res`
Ended(t, op, res) == th[t].pc = "done" /\ th[t].op = op /\ th[t].res = res

\* C1: with calls made one at a time, after construction and after any sequence
\* of create_session, terminate_session, cleanup_inactive_sessions and
\* periodic_cleanup, no store holds more than max_sessions sessions.
C1_SizeWithinLimit ==
    \A k \in DOMAIN stores : Size(stores[k]) <= max_sessions
\* a full store has refused a create_session
C1_Witness ==
    /\ canon # 0
    /\ Size(stores[canon]) = max_sessions
    /\ \E t \in Threads : Ended(t, "create", "capacity")

\* C2: with create_session calls overlapping on the executor's workers, the
\* accessor's store never holds more than max_sessions sessions.
C2_OverlappingCreatesWithinLimit ==
    canon # 0 => Size(stores[canon]) <= max_sessions

\* C3: a resolve made right after create_session returned id i, through a manager
\* that took the store from the accessor, returns the device_udid of session i,
\* and the manager still uses the accessor's store.
C3_ResolveAfterCreate ==
    \A t \in Threads :
        (/\ th[t].pc = "done" /\ th[t].op = "resolve"
         /\ th[t].prev.op = "create" /\ th[t].prev.id = th[t].sid)
        => /\ th[t].res = "ok"
           /\ th[t].udid = th[t].prev.udid
           /\ th[t].sm = canon
\* a resolve of the id the previous create_session returned has ended
C3_Witness ==
    \E t \in Threads :
        /\ Ended(t, "resolve", "ok")
        /\ th[t].prev.op = "create" /\ th[t].prev.id = th[t].sid
        /\ th[t].got = canon /\ th[t].udid \in Devices

\* C4: resolving a session-shaped id that is not live in the accessor's store
\* ends with the not-found error, also when a file of that id is on disk, and
\* the manager takes up no other store.
C4_NotLiveIsNotFound ==
    \A t \in Threads :
        (/\ th[t].pc = "done" /\ th[t].op = "resolve"
         /\ LooksLikeSessionId(TargetShape(th[t].sid, th[t].raw))
         /\ th[t].sid \notin DOMAIN th[t].s0)
        => th[t].res = "notfound" /\ th[t].sm = th[t].got

\* C5: under any interleaving of tool calls the accessor constructs the store at
\* most once in a process, every running call works on the instance the accessor
\* holds, and two managers that took the store from the accessor hold the same
\* instance, so they read the same list_sessions().
C5_OneCanonicalStore ==
    /\ nCanon <= 1
    /\ \A t \in Threads : th[t].self # 0 => th[t].self = canon
    /\ \A t, u \in Threads :
          (th[t].got # 0 /\ th[u].got # 0)
          => th[t].got = th[u].got /\ stores[th[t].got] = stores[th[u].got]
\* two managers hold the accessor's store while their calls overlap
C5_Witness ==
    /\ nCanon = 1
    /\ th[1].got = canon /\ th[2].got = canon
    /\ th[1].pc = "r_resolve" /\ th[2].pc = "r_resolve"

\* sessions of the store at the start of thread t's call that are gone now
Removed(t) == (DOMAIN th[t].s0) \ (DOMAIN stores[canon])
\* sessions of table tab that are older than h hours now
Older(tab, h) == {i \in DOMAIN tab : now - tab[i].created_at > h}
\* thread t's create_session has returned or raised
CreateEnded(t) == th[t].pc = "done" /\ th[t].op = "create"

\* C6: a create_session on a full store whose sessions are all too young to
\* reap fails with the capacity error and leaves the table and the files as they
\* were; a create_session on a store with room (as after terminate_session of a
\* live session) never fails for capacity, and when it succeeds the new session
\* is in the table and on disk.
C6_CapacityScenario ==
    \A t \in Threads :
        CreateEnded(t) =>
          /\ (Size(th[t].s0) >= max_sessions /\ Older(th[t].s0, AggressiveAgeHours) = {})
                => th[t].res = "capacity"
          /\ th[t].res = "capacity" => stores[canon] = th[t].s0 /\ disk = th[t].d0
          /\ Size(th[t].s0) < max_sessions => th[t].res # "capacity"
          /\ th[t].res = "ok"
                => /\ th[t].val \in DOMAIN stores[canon]
                   /\ th[t].val \in DOMAIN disk
                   /\ Size(stores[canon]) <= max_sessions
\* with max_sessions = 2 and two live sessions a third create_session was refused
C6_Witness ==
    \E t \in Threads :
        /\ Ended(t, "create", "capacity")
        /\ max_sessions = 2
        /\ Size(stores[canon]) = 2
        /\ stores[canon] = th[t].s0 /\ disk = th[t].d0

\* C7 as amended: create_session terminates only sessions older than the one hour
\* of its aggressive pass; it never terminates a session of age <= 1 hour.
C7_ReapsOnlyOlderThanOneHour ==
    \A t \in Threads :
        CreateEnded(t) =>
          \A i \in Removed(t) : now - th[t].s0[i].created_at > AggressiveAgeHours
\* a create_session removed a session older than one hour but not older than
\* auto_cleanup_hours
C7_Witness ==
    \E t \in Threads :
        /\ CreateEnded(t)
        /\ \E i \in Removed(t) :
              /\ now - th[t].s0[i].created_at > AggressiveAgeHours
              /\ now - th[t].s0[i].created_at <= auto_cleanup_hours
\* C7 as stated: create_session never terminates a session of age <=
\* auto_cleanup_hours.
C7_Original ==
    \A t \in Threads :
        CreateEnded(t) =>
          \A i \in Removed(t) : now - th[t].s0[i].created_at > auto_cleanup_hours

C9_OrphanAndSecondTerminate ==
    \A t \in Threads :
        (th[t].pc = "done" /\ th[t].op = "terminate") =>
          /\ th[t].sid \notin DOMAIN th[t].s0 =>
                /\ stores[canon] = th[t].s0
                /\ IF th[t].sid \in DOMAIN th[t].d0
                   THEN th[t].res = "ok" /\ disk = Del(th[t].d0, th[t].sid)
                   ELSE th[t].res = "notfound" /\ disk = th[t].d0
          /\ (th[t].prev.op = "terminate" /\ th[t].prev.id = th[t].sid)
                => th[t].res = "notfound"
\* an orphan file was cleaned up by terminate_session
C9_Witness ==
    \E t \in Threads :
        /\ Ended(t, "terminate", "ok")
        /\ th[t].sid \notin DOMAIN th[t].s0
        /\ th[t].sid \in DOMAIN th[t].d0
        /\ th[t].sid \notin DOMAIN disk

\* C10: when two terminate_session calls for the same live id overlap, exactly
\* one of them performs the termination and the other ends with not-found, and
\* the device shutdown is requested at most once.
C10_OverlappingTerminate ==
    \A t, u \in Threads :
        (/\ t # u
         /\ th[t].pc = "done" /\ th[t].op = "terminate"
         /\ th[u].pc = "done" /\ th[u].op = "terminate"
         /\ th[t].sid = th[u].sid
         /\ u \in th[t].conc
         /\ th[t].saw)
        => /\ th[t].res = "ok"
           /\ th[u].res = "notfound"
           /\ ~(th[t].sid \in th[t].shut /\ th[u].sid \in th[u].shut)

\* C11: with calls made one at a time, terminate_session of a live session ends
\* with the record gone from the table and its file gone from the directory,
\* whether or not the device lookup or the shutdown request failed.
C11_TerminateRemovesBoth ==
    \A t \in Threads :
        (th[t].pc = "done" /\ th[t].op = "terminate" /\ th[t].sid \in DOMAIN th[t].s0)
        => /\ th[t].res = "ok"
           /\ th[t].sid \notin DOMAIN stores[canon]
           /\ th[t].sid \notin DOMAIN disk
           /\ stores[canon] = Del(th[t].s0, th[t].sid)
\* a live session was terminated although its shutdown request failed: the
\* simulator is still booted
C11_Witness ==
    \E t \in Threads :
        /\ Ended(t, "terminate", "ok")
        /\ th[t].sid \in DOMAIN th[t].s0
        /\ th[t].sid \in th[t].shut
        /\ devState[th[t].s0[th[t].sid].device_udid] = "booted"
        /\ th[t].sid \notin DOMAIN stores[canon] /\ th[t].sid \notin DOMAIN disk

\* C12: the id a successful create_session returns was not the id of a session
\* the store held when the call started, so no record is overwritten.
C12_CreatedIdIsFresh ==
    \A t \in Threads :
        (CreateEnded(t) /\ th[t].res = "ok") => th[t].val \notin DOMAIN th[t].s0

\* the accessor has just constructed the store from directory lastCall.dir
Constructed == lastCall.op = "construct"
\* record r carries a created_at that is older than auto_cleanup_hours now
IsExpiredRecord(r) ==
    /\ r.kind \in {"ok", "nofield", "badtype"}
    /\ FromIsoFormat(r.created_at) < now - auto_cleanup_hours

\* C13: a persisted record whose created_at is older than auto_cleanup_hours when
\* the store is constructed is not in the session table after construction, and
\* its file is gone.
C13_ExpiredRecordDropped ==
    Constructed =>
      \A f \in DOMAIN lastCall.dir :
          IsExpiredRecord(lastCall.dir[f])
          => f \notin DOMAIN stores[canon] /\ f \notin DOMAIN disk
\* a store was constructed on a directory that held an expired well-formed record
C13_Witness ==
    /\ Constructed
    /\ \E f \in DOMAIN lastCall.dir :
          /\ lastCall.dir[f].kind = "ok" /\ IsExpiredRecord(lastCall.dir[f])
          /\ f \notin DOMAIN stores[canon] /\ f \notin DOMAIN disk

\* C14: a persisted record that lacks a required field, names an unknown
\* device_type or has an unparsable created_at is not in the session table after
\* construction, and its file has been deleted.
C14_MalformedRecordDeleted ==
    Constructed =>
      \A f \in DOMAIN lastCall.dir :
          lastCall.dir[f].kind \in {"nofield", "badtype", "badtime"}
          => f \notin DOMAIN stores[canon] /\ f \notin DOMAIN disk

\* C15: a record file that is not valid JSON is moved to the side directory
\* "corrupted" by the construction, so it is there afterwards.
C15_CorruptedFileKept ==
    Constructed =>
      \A f \in DOMAIN lastCall.dir :
          lastCall.dir[f].kind = "corrupt" => f \in corrupted

\* C16: right after a construction every record file left in the directory
\* backs a session of the constructed store (records beyond max_sessions
\* had their files removed).
C16_NoFileWithoutSession ==
    Constructed => DOMAIN disk \subseteq DOMAIN stores[canon]

\* record r would be admitted by a construction now: well formed and not older
\* than auto_cleanup_hours
Loadable(r) == r.kind = "ok" /\ ~IsExpiredRecord(r)
\* the directory holds no more loadable records than max_sessions
UnderCapacity(dir) ==
    Cardinality({f \in DOMAIN dir : Loadable(dir[f])}) <= max_sessions

ThresholdOf(t) ==
    IF th[t].op = "cleanup" THEN AggressiveAgeHours ELSE auto_cleanup_hours
\* table tab without the keys in S
Without(tab, S) == [k \in (DOMAIN tab) \ S |-> tab[k]]

\* C18: cleanup_inactive_sessions(max_age_hours), with no other call running,
\* removes from the session table and from the directory every session older
\* than max_age_hours, returns exactly their ids, and leaves every other
\* session and file as it was.
C18_CleanupRemovesExactlyOld ==
    \A t \in Threads :
        (th[t].pc = "done" /\ th[t].op \in {"cleanup", "periodic"})
        => LET old == Older(th[t].s0, ThresholdOf(t))
           IN  /\ th[t].res = "ok"
               /\ th[t].cleaned = old
               /\ stores[canon] = Without(th[t].s0, old)
               /\ disk = Without(th[t].d0, old)
\* a clean-up that removed an old session and kept a young one
C18_Witness ==
    \E t \in Threads :
        /\ Ended(t, "cleanup", "ok")
        /\ th[t].cleaned # {}
        /\ th[t].cleaned \subseteq DOMAIN th[t].d0
        /\ \E i \in DOMAIN stores[canon] :
              /\ now - stores[canon][i].created_at = AggressiveAgeHours
              /\ i \in DOMAIN disk

\* C19: resolving a raw device id that is not session-shaped (36 characters, no
\* underscore) returns the input unchanged, and neither looks into a store nor
\* constructs one: the manager keeps the store it had, no other store exists,
\* and table and directory are as before the call.
C19_RawIdReturnedUnchanged ==
    \A t \in Threads :
        (th[t].pc = "done" /\ th[t].op = "resolve" /\ th[t].sid = NoId)
        => /\ th[t].res = "ok"
           /\ th[t].udid = th[t].raw
           /\ th[t].sm = th[t].got
           /\ DOMAIN stores = {canon}
           /\ stores[canon] = th[t].s0
           /\ disk = th[t].d0
\* a raw udid was resolved while the directory held a record the store does
\* not hold, so a store constructed by the resolver would have shown
C19_Witness ==
    \E t \in Threads :
        /\ Ended(t, "resolve", "ok")
        /\ th[t].sid = NoId
        /\ th[t].raw \in Simulators
        /\ th[t].udid = th[t].raw
        /\ ~(DOMAIN disk \subseteq DOMAIN stores[canon])

\* results of create_session that stand for DeviceNotFoundError and
\* DeviceNotAvailableError
DeviceFailures == {"devnotfound", "devnotavail"}

\* C20: a create_session that fails while finding or preparing its device
\* returns no id and adds nothing: every session of the table and every file of
\* the directory was there, unchanged, before the call; a create_session for
\* an unknown device_udid never succeeds.
C20_FailedCreateAddsNothing ==
    \A t \in Threads :
        CreateEnded(t) =>
          /\ th[t].res \in DeviceFailures =>
                /\ th[t].val = NoId
                /\ \A i \in DOMAIN stores[canon] :
                      i \in DOMAIN th[t].s0 /\ stores[canon][i] = th[t].s0[i]
                /\ \A f \in DOMAIN disk :
                      f \in DOMAIN th[t].d0 /\ disk[f] = th[t].d0[f]
          /\ th[t].cfg.device_udid = UnknownUdid => th[t].res \in {"devnotfound", "capacity"}
\* a create_session for an unknown udid failed on a store that holds a session
C20_Witness ==
    \E t \in Threads :
        /\ Ended(t, "create", "devnotfound")
        /\ th[t].cfg.device_udid = UnknownUdid
        /\ th[t].s0 # EmptyTable
        /\ stores[canon] = th[t].s0
        /\ disk = th[t].d0

\* no device is usable and the first device the discovery lists is a
\* simulator that is shut down
OnlyShutdownSimulator ==
    /\ \A u \in Devices : devState[u] \notin {"booted", "connected"}
    /\ DiscoverAllDevices[1] \in Simulators
    /\ devState[DiscoverAllDevices[1]] = "shutdown"
\* thread t leaves the device step of a create_session by criteria with autoboot
BootStep(t) ==
    /\ th[t].pc = "c_find"
    /\ th[t].cfg.device_udid = NoUdid
    /\ th[t].cfg.autoboot
    /\ OnlyShutdownSimulator
    /\ th'[t].pc # "c_find"

C22_ToolTerminateUnknownIsError ==
    \A t \in Threads :
        (/\ th[t].pc = "done" /\ th[t].op = "terminate" /\ th[t].tool
         /\ th[t].sid \notin DOMAIN th[t].s0
         /\ th[t].sid \notin DOMAIN th[t].d0)
        => th[t].payload = "error"

\* a listing call (DeviceDetector.discover_all_devices or
\* SimulatorManager.list_available_simulators) has ended
ListingEnded == leg.pc = "done" /\ leg.op \in {"discover", "list"}
\* the cache of the object the call was made on
CacheOf(op) == IF op = "discover" THEN detector ELSE simmgr

\* C23: a listing is answered from the cache exactly when refresh_cache is not
\* set, a cached listing exists and it is less than 30 seconds old, and then
\* the cached list is returned and the cache kept; with refresh_cache=True the
\* external listing is run again and, when it gives a list, that list replaces
\* the cache with the current time.
C23_CacheServedOnlyWhenYoung ==
    ListingEnded =>
      /\ ~leg.ran <=> (~leg.refresh /\ leg.c0.has /\ clock - leg.c0.last < 30)
      /\ ~leg.ran => (leg.ret = leg.c0.devs /\ CacheOf(leg.op) = leg.c0)
      /\ leg.refresh => leg.ran
      /\ (leg.ran /\ leg.res = "ok")
           => CacheOf(leg.op) = [has |-> TRUE, devs |-> leg.ret, last |-> clock]
\* a listing answered from a cache that is 29 seconds old and shows a state the
\* simulator has left
C23_Witness ==
    /\ ListingEnded
    /\ ~leg.ran
    /\ clock - leg.c0.last = 29
    /\ "S1" \in DOMAIN leg.ret
    /\ leg.ret["S1"] = "Booted"
    /\ devState["S1"] = "shutdown"

\* C24: when the external listing command fails during
\* DeviceDetector.discover_all_devices, the call raises; it neither returns a
\* list nor caches one.
C24_FailedDiscoveryRaises ==
    (leg.pc = "done" /\ leg.op = "discover" /\ leg.failed)
    => (leg.res = "error" /\ detector = leg.c0)

\* C25: shutdown_simulator_by_udid on a simulator that is shut down already
\* returns normally.
C25_ShutdownIdempotent ==
    (leg.pc = "done" /\ leg.op = "shutdown" /\ leg.was = "shutdown") => leg.res = "ok"

\* what holds of boot_simulator_by_udid at every moment
BootSafe ==
    leg.op = "boot" =>
      /\ leg.attempts <= leg.timeout
      /\ leg.pc \in {"b_poll", "done"}
      /\ leg.pc = "done" =>
            /\ leg.res \in {"ok", "error", "timeout"}
            /\ leg.res = "ok" =>
                  /\ leg.udid \in DOMAIN leg.ret /\ leg.ret[leg.udid] = "Booted"
                  /\ simmgr.has /\ simmgr.devs = leg.ret
                  /\ leg.was = "shutdown" <=> leg.sent
            /\ leg.res = "timeout" => (leg.sent /\ leg.attempts = leg.timeout)
            /\ leg.was = "booted" => (~leg.sent /\ leg.attempts = 0 /\ leg.res # "timeout")
            /\ (leg.was = "booted" /\ ~leg.failed) => leg.res = "ok"

\* C26: boot_simulator_by_udid(udid, timeout) always ends; it returns normally
\* only with a fresh listing that shows the simulator as Booted (at once and
\* without a boot command when it was booted already), and otherwise raises,
\* after at most `timeout` polls.
C26_BootTerminates ==
    /\ []BootSafe
    /\ (leg.pc = "b_poll") ~> (leg.pc = "done")
\* a boot that was issued and seen in the second poll, after a listing failed
C26_Witness ==
    /\ leg.pc = "done" /\ leg.op = "boot" /\ leg.res = "ok"
    /\ leg.sent
    /\ leg.attempts = 1
    /\ leg.timeout = 2

\* C27: in the legacy _prepare_simulator no poll of the wait loop is answered
\* from a cached listing while the simulator is booted, so a create_session
\* does not time out on a simulator that was booted during one of its polls.
C27_LegacyPollsAreFresh ==
    (leg.pc = "done" /\ leg.op = "create" /\ leg.res = "timeout") => ~leg.missed

\* C28: terminate_session, called directly or by a clean-up pass, requests no
\* shutdown of a simulator that another session of the store is bound to: a
\* session that is still live when the call ends is on another device than
\* every session the call requested a shutdown for.
C28_NoShutdownUnderLiveSession ==
    \A t \in Threads :
        th[t].pc = "done" =>
          \A i \in th[t].shut \cap DOMAIN th[t].s0 :
            \A j \in (DOMAIN stores[canon]) \cap (DOMAIN th[t].s0) :
                j # i => th[t].s0[j].device_udid # th[t].s0[i].device_udid

\* C29: resolving a session id through a UnifiedUtilitiesManager changes no
\* session state: when the resolve ends the directory holds the files it held
\* when the call began, the accessor's session table is as it was, and the
\* manager still uses the store it was configured with.
C29_ResolveChangesNoSessionState ==
    \A t \in Threads :
        (th[t].pc = "done" /\ th[t].op = "resolve" /\ th[t].sid # NoId)
        => /\ disk = th[t].d0
           /\ stores[canon] = th[t].s0
           /\ th[t].sm = th[t].got

\* C30: when ios_create_session or ios_create_automation_session returns an
\* error payload, the session the call created, if it created one, is neither
\* in the store nor on disk, and the store holds no session it did not hold
\* when the tool was called.
C30_ErrorPayloadLeavesNoSession ==
    \A t \in Threads :
        (th[t].pc = "done" /\ th[t].op = "toolcreate" /\ th[t].payload = "error")
        => /\ th[t].val # NoId =>
                (th[t].val \notin DOMAIN stores[canon] /\ th[t].val \notin DOMAIN disk)
           /\ DOMAIN stores[canon] \subseteq DOMAIN th[t].s0

====
